---- MODULE Spec2Model ----
(***************************************************************************)
(* Binary search tree of DSA-Labs/Binary_tree.py: BSTNode, BST.insert,     *)
(* BST.search, BST.inorder_traversal and level_order_traversal.            *)
(*                                                                         *)
(* The heap of BSTNode objects is the sequence `nodes`: the object created *)
(* by the i-th call of BSTNode(data) is nodes[i], and a reference to it is *)
(* the number i.  None is the reference 0.                                 *)
(***************************************************************************)
EXTENDS Integers, Sequences, FiniteSets, Bags, TLC

\* Bounds of the model: keys are 1..MaxKey, at most MaxNodes insert calls.
MaxKey == 3
MaxNodes == 4

Keys == 1..MaxKey

\* Python's None, as a reference.
None == 0

VARIABLES
    nodes,        \* heap: nodes[i] = [data, left, right] of the i-th BSTNode
    root,         \* BST.root
    inserted,     \* history: the arguments of the insert calls so far, in order
    pc,           \* "idle", or the operation in progress
    arg,          \* search: the data searched for
    cur,          \* search: the node argument of the current _search call
    found,        \* search: the value returned
    searchRan,    \* a search of the present tree has returned
    stack,        \* inorder_traversal: the call stack, top at the end
    inorderOut,   \* what inorder_traversal printed, in order
    inorderVisited, \* history: the nodes whose data it printed, in order
    inorderRan,   \* an inorder_traversal of the present tree has returned
    queue,        \* level_order_traversal: the deque
    levelOut,     \* what level_order_traversal printed, in order
    levelVisited, \* history: the nodes level_order_traversal dequeued, in order
    levelRan      \* a level_order_traversal of the present tree has returned

vars == <<nodes, root, inserted, pc, arg, cur, found, searchRan, stack, inorderOut,
          inorderVisited, inorderRan, queue, levelOut, levelVisited, levelRan>>

treeVars == <<nodes, root, inserted>>
searchVars == <<arg, cur, found, searchRan>>
inorderVars == <<stack, inorderOut, inorderVisited, inorderRan>>
levelVars == <<queue, levelOut, levelVisited, levelRan>>

-----------------------------------------------------------------------------
(* BSTNode and BST construction *)

BSTNode(data) == [data |-> data, left |-> None, right |-> None]

Init ==
    /\ nodes = <<>>
    /\ root = None
    /\ inserted = <<>>
    /\ pc = "idle"
    /\ arg = None
    /\ cur = None
    /\ found = FALSE
    /\ searchRan = FALSE
    /\ stack = <<>>
    /\ inorderOut = <<>>
    /\ inorderVisited = <<>>
    /\ inorderRan = FALSE
    /\ queue = <<>>
    /\ levelOut = <<>>
    /\ levelVisited = <<>>
    /\ levelRan = FALSE

-----------------------------------------------------------------------------
(* BST.insert / BST._insert *)

\* `if data < node.data` of _insert (preceded by two faulty variants: `<=`,
\* which sends equal keys left, and `>`, which reverses the order)
InsertGoesLeftLE(data, nodeData) == data <= nodeData
InsertGoesLeftGT(data, nodeData) == data > nodeData
InsertGoesLeft(data, nodeData) == data < nodeData

\* `if not node.left`, `if not node.right` of _insert (each preceded by a
\* faulty variant that attaches without looking at the link)
LeftFreeAlways(h, node) == TRUE
LeftFree(h, node) == h[node].left = None
RightFreeAlways(h, node) == TRUE
RightFree(h, node) == h[node].right = None

\* The heap after _insert(node, data) on heap h.
RECURSIVE _insert(_, _, _)
_insert(h, node, data) ==
    IF InsertGoesLeft(data, h[node].data)
    THEN IF LeftFree(h, node)
         THEN [Append(h, BSTNode(data)) EXCEPT ![node].left = Len(h) + 1]
         ELSE _insert(h, h[node].left, data)
    ELSE IF RightFree(h, node)
         THEN [Append(h, BSTNode(data)) EXCEPT ![node].right = Len(h) + 1]
         ELSE _insert(h, h[node].right, data)

\* Every operation starts a fresh run of its own; an insert changes the tree,
\* so what the traversals printed before no longer describes it.
ClearSearch == arg' = None /\ cur' = None /\ found' = FALSE /\ searchRan' = FALSE
ClearInorder ==
    stack' = <<>> /\ inorderOut' = <<>> /\ inorderVisited' = <<>> /\ inorderRan' = FALSE
ClearLevel ==
    queue' = <<>> /\ levelOut' = <<>> /\ levelVisited' = <<>> /\ levelRan' = FALSE

insert(data) ==
    /\ pc = "idle"
    /\ Len(nodes) < MaxNodes
    /\ IF root = None
       THEN /\ nodes' = Append(nodes, BSTNode(data))
            /\ root' = Len(nodes) + 1
       ELSE /\ nodes' = _insert(nodes, root, data)
            /\ root' = root
    /\ inserted' = Append(inserted, data)
    /\ ClearSearch /\ ClearInorder /\ ClearLevel
    /\ UNCHANGED pc

-----------------------------------------------------------------------------
(* BST.search / BST._search *)

\* `if node.data == data` of _search (preceded by a faulty variant: `>=`)
SearchHitGE(nodeData, data) == nodeData >= data
SearchHit(nodeData, data) == nodeData = data

\* `elif data < node.data` of _search (preceded by a faulty variant: `>`)
SearchGoesLeftGT(data, nodeData) == data > nodeData
SearchGoesLeft(data, nodeData) == data < nodeData

\* `return False` of _search on an absent node (preceded by a faulty variant
\* returning True)
NotFoundTrue == TRUE
NotFound == FALSE

\* search(data): the call self._search(self.root, data)
search(data) ==
    /\ pc = "idle"
    /\ pc' = "search"
    /\ arg' = data
    /\ cur' = root
    /\ found' = FALSE
    /\ searchRan' = FALSE
    /\ UNCHANGED <<treeVars, inorderVars, levelVars>>

\* The node argument of the recursive call of _search (preceded by a faulty
\* variant that calls itself on the same node)
SearchChildSelf(h, node, data) == node
SearchChild(h, node, data) ==
    IF SearchGoesLeft(data, h[node].data) THEN h[node].left ELSE h[node].right

\* One call of _search(cur, arg): it returns, or calls itself on a child and
\* returns what that call returns.
_search ==
    /\ pc = "search"
    /\ IF cur = None
       THEN /\ found' = NotFound
            /\ searchRan' = TRUE
            /\ pc' = "idle"
            /\ UNCHANGED cur
       ELSE IF SearchHit(nodes[cur].data, arg)
       THEN /\ found' = TRUE
            /\ searchRan' = TRUE
            /\ pc' = "idle"
            /\ UNCHANGED cur
       ELSE /\ cur' = SearchChild(nodes, cur, arg)
            /\ UNCHANGED <<found, searchRan, pc>>
    /\ UNCHANGED <<treeVars, arg, inorderVars, levelVars>>

-----------------------------------------------------------------------------
(* BST.inorder_traversal *)

\* A frame of the call stack: the node argument and the position in the body:
\* "enter" at `if node:`, "print" once the call on node.left has returned,
\* "return" once the call on node.right has returned.
Frame(node, at) == [node |-> node, at |-> at]

\* The argument of the first and of the second recursive call (preceded by a
\* faulty variant whose first call is on node.right too)
FirstCallRight(h, node) == h[node].right
FirstCall(h, node) == h[node].left
SecondCall(h, node) == h[node].right

Push(s, f) == Append(s, f)
Pop(s) == SubSeq(s, 1, Len(s) - 1)
Top(s) == s[Len(s)]
SetTop(s, f) == [s EXCEPT ![Len(s)] = f]

\* inorder_traversal(root), the call of the caller
inorder_traversal ==
    /\ pc = "idle"
    /\ pc' = "inorder"
    /\ stack' = <<Frame(root, "enter")>>
    /\ inorderOut' = <<>>
    /\ inorderVisited' = <<>>
    /\ inorderRan' = FALSE
    /\ UNCHANGED <<treeVars, searchVars, levelVars>>

\* The topmost call returns; the traversal is over when it was the caller's.
InorderReturn ==
    /\ stack' = Pop(stack)
    /\ IF Len(stack) = 1
       THEN pc' = "idle" /\ inorderRan' = TRUE
       ELSE UNCHANGED <<pc, inorderRan>>
    /\ UNCHANGED <<inorderOut, inorderVisited>>

inorder_step ==
    /\ pc = "inorder"
    /\ LET f == Top(stack) IN
       CASE f.at = "enter" ->
              IF f.node = None
              THEN InorderReturn
              ELSE /\ stack' = Push(SetTop(stack, Frame(f.node, "print")),
                                    Frame(FirstCall(nodes, f.node), "enter"))
                   /\ UNCHANGED <<pc, inorderOut, inorderVisited, inorderRan>>
         [] f.at = "print" ->
              /\ inorderOut' = Append(inorderOut, nodes[f.node].data)
              /\ inorderVisited' = Append(inorderVisited, f.node)
              /\ stack' = Push(SetTop(stack, Frame(f.node, "return")),
                               Frame(SecondCall(nodes, f.node), "enter"))
              /\ UNCHANGED <<pc, inorderRan>>
         [] f.at = "return" -> InorderReturn
    /\ UNCHANGED <<treeVars, searchVars, levelVars>>

-----------------------------------------------------------------------------
(* level_order_traversal *)

\* What one iteration appends to the queue: node.left if present, then
\* node.right if present (preceded by two faulty variants: one without the
\* right child, one with the children swapped)
ChildrenLeftOnly(h, node) ==
    IF h[node].left # None THEN <<h[node].left>> ELSE <<>>
ChildrenRightFirst(h, node) ==
    (IF h[node].right # None THEN <<h[node].right>> ELSE <<>>)
        \o (IF h[node].left # None THEN <<h[node].left>> ELSE <<>>)
Children(h, node) ==
    (IF h[node].left # None THEN <<h[node].left>> ELSE <<>>)
        \o (IF h[node].right # None THEN <<h[node].right>> ELSE <<>>)

\* deque([root])
InitialQueue(r) == <<r>>

\* level_order_traversal(root), up to the first test of `while queue`
level_order_traversal ==
    /\ pc = "idle"
    /\ levelOut' = <<>>
    /\ levelVisited' = <<>>
    /\ IF root = None
       THEN /\ queue' = <<>>
            /\ levelRan' = TRUE
            /\ UNCHANGED pc
       ELSE /\ queue' = InitialQueue(root)
            /\ levelRan' = FALSE
            /\ pc' = "level"
    /\ UNCHANGED <<treeVars, searchVars, inorderVars>>

\* The test of `while queue`, and one iteration of the body when it holds
level_step ==
    /\ pc = "level"
    /\ IF queue = <<>>
       THEN /\ pc' = "idle"
            /\ levelRan' = TRUE
            /\ UNCHANGED <<queue, levelOut, levelVisited>>
       ELSE LET node == Head(queue) IN
            /\ queue' = Tail(queue) \o Children(nodes, node)
            /\ levelOut' = Append(levelOut, nodes[node].data)
            /\ levelVisited' = Append(levelVisited, node)
            /\ UNCHANGED <<pc, levelRan>>
    /\ UNCHANGED <<treeVars, searchVars, inorderVars>>

-----------------------------------------------------------------------------

Next ==
    \/ \E data \in Keys : insert(data)
    \/ \E data \in Keys : search(data)
    \/ _search
    \/ inorder_traversal
    \/ inorder_step
    \/ level_order_traversal
    \/ level_step

Spec == Init /\ [][Next]_vars

\* The calls are synchronous: an operation that has started runs on until it
\* returns.
FairSpec ==
    Spec /\ WF_vars(_search) /\ WF_vars(inorder_step) /\ WF_vars(level_step)

-----------------------------------------------------------------------------
(* Vocabulary of the properties *)

\* The nodes of the subtree rooted at reference n
RECURSIVE Subtree(_, _)
Subtree(h, n) ==
    IF n = None THEN {} ELSE {n} \cup Subtree(h, h[n].left) \cup Subtree(h, h[n].right)

Tree == Subtree(nodes, root)

Range(s) == {s[i] : i \in DOMAIN s}
Count(s, k) == Cardinality({i \in DOMAIN s : s[i] = k})
SameBag(s, t) == \A k \in Range(s) \cup Range(t) : Count(s, k) = Count(t, k)
NonDecreasing(s) == \A i, j \in DOMAIN s : i < j => s[i] <= s[j]
Last(s) == s[Len(s)]

\* The number of child-hops from root to a node of the tree
RECURSIVE Depth(_)
Depth(n) ==
    IF n = root THEN 0
    ELSE 1 + Depth(CHOOSE p \in DOMAIN nodes : nodes[p].left = n \/ nodes[p].right = n)

\* The position of node n in the sequence of dequeued nodes
Position(n) == CHOOSE i \in DOMAIN levelVisited : levelVisited[i] = n

\* The step is a call of insert
IsInsert == Len(inserted') = Len(inserted) + 1

-----------------------------------------------------------------------------
(* Properties *)

\* C1: after any sequence of inserts, for every node n of the tree every key in
\* n's left subtree is strictly less than n's key and every key in n's right
\* subtree is greater than or equal to n's key.
BSTInvariant ==
    \A n \in Tree :
        /\ \A m \in Subtree(nodes, nodes[n].left) : nodes[m].data < nodes[n].data
        /\ \A m \in Subtree(nodes, nodes[n].right) : nodes[m].data >= nodes[n].data

\* A tree whose root has a left subtree, and a right subtree of two nodes one of
\* which carries the root's own key.
BSTInvariantWitness ==
    /\ root # None
    /\ nodes[root].left # None
    /\ Cardinality(Subtree(nodes, nodes[root].right)) >= 2
    /\ \E m \in Subtree(nodes, nodes[root].right) : nodes[m].data = nodes[root].data

\* C2: once the insertions are done, search(k) returns true for every k that
\* was inserted (duplicates allowed, any order).
InsertThenSearch ==
    (searchRan /\ arg \in Range(inserted)) => found = TRUE

\* A search that found a twice-inserted key below the root.
InsertThenSearchWitness ==
    /\ searchRan
    /\ found = TRUE
    /\ Count(inserted, arg) >= 2
    /\ cur # root

\* C3: search(k) returns false for every key k equal to no inserted key.
SearchMiss ==
    (searchRan /\ arg \notin Range(inserted)) => found = FALSE

\* A search for a key never inserted, with smaller and larger keys in the
\* tree, that returned false.
SearchMissWitness ==
    /\ searchRan
    /\ found = FALSE
    /\ arg \notin Range(inserted)
    /\ \E a, b \in Range(inserted) : a < arg /\ arg < b

\* C4: the keys inorder_traversal(root) emits are non-decreasing and are the
\* multiset of the inserted keys.
InorderSorted ==
    inorderRan => NonDecreasing(inorderOut) /\ SameBag(inorderOut, inserted)

\* A finished traversal of a tree with a duplicate key, built in an order
\* other than the sorted one.
InorderSortedWitness ==
    /\ inorderRan
    /\ Len(inorderOut) >= 3
    /\ inorderOut # inserted
    /\ \E k \in Range(inserted) : Count(inserted, k) >= 2

\* C5: level_order_traversal(root) emits each node reachable from root exactly
\* once and no other node, so the multiset of keys it emits is that of
\* inorder_traversal(root) on the same tree.
LevelOrderComplete ==
    /\ levelRan =>
        /\ Range(levelVisited) = Tree
        /\ \A i, j \in DOMAIN levelVisited : levelVisited[i] = levelVisited[j] => i = j
        /\ levelOut = [i \in DOMAIN levelVisited |-> nodes[levelVisited[i]].data]
    /\ (levelRan /\ inorderRan) => SameBag(levelOut, inorderOut)

\* Both traversals of one tree have finished, and printed different sequences.
LevelOrderCompleteWitness ==
    /\ levelRan
    /\ inorderRan
    /\ Len(levelOut) >= 3
    /\ levelOut # inorderOut

\* C6: level_order_traversal emits the root first and the nodes in
\* non-decreasing order of depth, and the left child of a node before its
\* right child.
LevelOrderByDepth ==
    /\ levelVisited # <<>> => levelVisited[1] = root
    /\ \A i, j \in DOMAIN levelVisited :
        i < j => Depth(levelVisited[i]) <= Depth(levelVisited[j])
    /\ levelRan =>
        \A n \in Tree :
            (nodes[n].left # None /\ nodes[n].right # None)
                => Position(nodes[n].left) < Position(nodes[n].right)

\* A finished traversal of a tree with a node of two children and a node at
\* depth 2.
LevelOrderByDepthWitness ==
    /\ levelRan
    /\ \E n \in Tree : nodes[n].left # None /\ nodes[n].right # None
    /\ \E n \in Tree : Depth(n) = 2

\* The links of the tree: root, and the left and right of every node
Links(h) == {<<None, "root">>} \cup ((DOMAIN h) \X {"left", "right"})
Target(h, r, l) ==
    IF l[2] = "root" THEN r
    ELSE IF l[2] = "left" THEN h[l[1]].left ELSE h[l[1]].right

\* C7: each insert(key) creates exactly one new node carrying key with both
\* children absent, and changes exactly one link, absent before, to point to
\* it (root if the tree was empty, else a link of an existing node); every
\* existing node keeps its key and every present link its target.
InsertAdditive ==
    [][IsInsert =>
        LET new == Len(nodes) + 1
            changed == {l \in Links(nodes) :
                            Target(nodes', root', l) # Target(nodes, root, l)}
        IN /\ Len(nodes') = new
           /\ nodes'[new] = [data |-> Last(inserted'), left |-> None, right |-> None]
           /\ \A i \in DOMAIN nodes : nodes'[i].data = nodes[i].data
           /\ Cardinality(changed) = 1
           /\ \A l \in changed :
                /\ Target(nodes, root, l) = None
                /\ Target(nodes', root', l) = new
                /\ (root = None) <=> (l[2] = "root")
      ]_vars

\* Inserts have attached a node to a left link and a node to a right link.
InsertAdditiveWitness ==
    /\ Len(inserted) >= 3
    /\ \E n \in Tree : nodes[n].left # None
    /\ \E n \in Tree : nodes[n].right # None

\* C8: inserting a key equal to the key of existing nodes adds a new node,
\* which lies in the right subtree of every existing node with that key.
DuplicatesGoRight ==
    [][IsInsert =>
        LET new == Len(nodes) + 1 IN
        /\ Len(nodes') = new
        /\ nodes'[new].data = Last(inserted')
        /\ \A i \in DOMAIN nodes :
              nodes[i].data = Last(inserted')
                  => new \in Subtree(nodes', nodes'[i].right)
        /\ (inserted = <<Last(inserted')>>) => nodes'[1].right = 2
      ]_vars

\* A key was inserted three times, and a duplicate lies in the right subtree
\* of its equal without being its right child.
DuplicatesGoRightWitness ==
    /\ \E k \in Range(inserted) : Count(inserted, k) >= 3
    /\ \E i, j \in DOMAIN nodes :
        /\ i < j
        /\ nodes[i].data = nodes[j].data
        /\ j \in Subtree(nodes, nodes[i].right)
        /\ nodes[i].right # j

\* C9: on a freshly constructed BST search(k) returns false for every k, and
\* both traversals emit nothing and return.
EmptyTree ==
    inserted = <<>> =>
        /\ root = None
        /\ searchRan => found = FALSE
        /\ pc = "inorder" => inorderOut = <<>>
        /\ inorderRan => inorderOut = <<>>
        /\ pc # "level"
        /\ levelRan => levelOut = <<>>

\* All three operations have returned on the empty tree.
EmptyTreeWitness ==
    /\ inserted = <<>>
    /\ searchRan
    /\ inorderRan
    /\ levelRan

\* C10: search, inorder_traversal and level_order_traversal each terminate,
\* and the level-order loop ends with its queue empty after as many dequeues
\* as the tree has nodes.
Termination ==
    /\ [](levelRan => queue = <<>> /\ Len(levelVisited) = Cardinality(Tree))
    /\ (pc = "search") ~> searchRan
    /\ (pc = "inorder") ~> inorderRan
    /\ (pc = "level") ~> levelRan

\* A level-order traversal of a tree of four nodes has returned.
TerminationWitness ==
    /\ levelRan
    /\ Cardinality(Tree) >= 4
    /\ Len(levelVisited) >= 4

\* C11: whenever two nodes carry equal keys, inorder_traversal emits the one
\* inserted earlier before the one inserted later (nodes are numbered in the
\* order of their insertion).
InorderStable ==
    /\ inorderOut = [i \in DOMAIN inorderVisited |-> nodes[inorderVisited[i]].data]
    /\ inorderRan => Range(inorderVisited) = DOMAIN nodes
    /\ \A i, j \in DOMAIN inorderVisited :
        (i < j /\ nodes[inorderVisited[i]].data = nodes[inorderVisited[j]].data)
            => inorderVisited[i] < inorderVisited[j]

\* A finished traversal of a tree holding a key three times, with another key
\* inserted between the equal ones.
InorderStableWitness ==
    /\ inorderRan
    /\ \E k \in Range(inserted) : Count(inserted, k) >= 3
    /\ \E i \in DOMAIN inserted :
        /\ 1 < i /\ i < Len(inserted)
        /\ inserted[i] # inserted[1]
        /\ inserted[1] = inserted[Len(inserted)]

\* The links that point to node n
LinksTo(n) == {l \in Links(nodes) : Target(nodes, root, l) = n}

\* The nodes reached from node n by at least one and at most k child-hops
RECURSIVE Below(_, _)
Below(n, k) ==
    IF k = 0 THEN {}
    ELSE LET c == {nodes[n].left, nodes[n].right} \ {None}
         IN c \cup UNION {Below(m, k - 1) : m \in c}

\* The nodes reached from root by at most k child-hops
ReachedFromRoot(k) == IF root = None THEN {} ELSE {root} \cup Below(root, k)

\* C12: after any sequence of inserts the nodes and links form a strict tree
\* rooted at root: every created node is reachable from root, every node but
\* the root is the child of exactly one node and the root of none, no node is
\* reachable from itself, and there are as many reachable nodes as insert
\* calls; once non-empty the tree never becomes empty again.
StrictTree ==
    /\ [](LET n == Len(nodes) IN
          /\ root \in {None} \cup DOMAIN nodes
          /\ (root = None) <=> (inserted = <<>>)
          /\ ReachedFromRoot(n) = DOMAIN nodes
          /\ Cardinality(ReachedFromRoot(n)) = Len(inserted)
          /\ \A m \in DOMAIN nodes :
                /\ Cardinality(LinksTo(m)) = 1
                /\ (m = root) <=> (LinksTo(m) = {<<None, "root">>})
                /\ m \notin Below(m, n))
    /\ [][root # None => root' # None]_vars

\* Four inserts have built a tree with a node of two children and a node two
\* hops below the root.
StrictTreeWitness ==
    /\ Len(inserted) >= 4
    /\ \E m \in DOMAIN nodes : nodes[m].left # None /\ nodes[m].right # None
    /\ ReachedFromRoot(1) # DOMAIN nodes
    /\ ReachedFromRoot(2) = DOMAIN nodes

====
